---- MODULE Spec2Model ----
(***************************************************************************)
(* Model of the ConeAnimation engine (src/src/cone-animation.ts): the      *)
(* animation clock, the orientation model with its table of intermediate   *)
(* quaternions, the cone mesh and direction-vector geometry, and the       *)
(* render loop started by initialize().                                    *)
(*                                                                         *)
(* Numbers.  The program computes in IEEE doubles.  The model computes in  *)
(* fixed point: a real r is the integer r * Scale, rounded to nearest.     *)
(* Angles are in 1/Scale radians.  Vectors are tuples <<x, y, z>>,         *)
(* quaternions are tuples <<x, y, z, w>> as in gl-matrix.  quat.slerp      *)
(* computes its angle, sines and scales with eight decimals and rounds     *)
(* the result to the grid.                                                 *)
(***************************************************************************)
EXTENDS Integers, Sequences, FiniteSets, TLC

\* Fixed-point unit: the integer that stands for the real number 1.
Scale == 10 ^ 3

\* Math.PI in fixed point (3.142).
PiS == 3142

HalfPi == PiS \div 2
TwoPi == 2 * PiS

----------------------------------------------------------------------------
(* Arithmetic helpers *)

Abs(a) == IF a < 0 THEN -a ELSE a

\* a / b rounded to the nearest integer, symmetric about 0 (b > 0).
Rnd(a, b) == IF a >= 0 THEN (2 * a + b) \div (2 * b)
                       ELSE -((2 * (-a) + b) \div (2 * b))

\* The fixed-point product of two fixed-point numbers.
Mul(a, b) == Rnd(a * b, Scale)

\* The integer square root of n by bisection on lo..hi.  Squares are
\* compared by division, so that no product leaves the integer range.
RECURSIVE SqrtBetween(_, _, _)
SqrtBetween(n, lo, hi) ==
  IF lo >= hi THEN lo
  ELSE LET mid == (lo + hi + 1) \div 2
       IN IF mid <= n \div mid THEN SqrtBetween(n, mid, hi)
                               ELSE SqrtBetween(n, lo, mid - 1)

\* A power of two whose square exceeds n, found by doubling from hi.
RECURSIVE SqrtAbove(_, _)
SqrtAbove(n, hi) == IF hi > n \div hi THEN hi ELSE SqrtAbove(n, 2 * hi)

\* Math.sqrt of n, where n is in units of 1/Scale^2; the result is in 1/Scale.
\* Rounded to nearest.
SqrtRound(n, r) == IF n - r * r > r THEN r + 1 ELSE r

Sqrt(n) == SqrtRound(n, SqrtBetween(n, 0, SqrtAbove(n, 1)))

\* x - x^3/3! + x^5/5! - x^7/7! + x^9/9! in Horner form, x2 = x * x.
SinHorner(x, x2) ==
  Mul(x, Scale - Rnd(Mul(x2, Scale - Rnd(Mul(x2, Scale - Rnd(Mul(x2,
         Scale - Rnd(x2, 72)), 42)), 20)), 6))

\* Math.sin on [0, HalfPi] by its Taylor polynomial.
SinPoly(x) == SinHorner(x, Mul(x, x))

\* An angle of [0, TwoPi] folded into [0, HalfPi], and the sign of its sine.
FoldAngle(y) ==
  IF y <= HalfPi THEN y
  ELSE IF y <= PiS THEN PiS - y
  ELSE IF y <= PiS + HalfPi THEN y - PiS
  ELSE TwoPi - y

SineSign(y) == IF y <= PiS THEN 1 ELSE -1

\* Math.sin on [0, TwoPi], computed once and kept as an explicit table
\* (@@ makes the function explicit).
SinTable == [y \in 0..TwoPi |-> SineSign(y) * SinPoly(FoldAngle(y))] @@ <<>>

\* Math.sin
Sin(x) == (IF x >= 0 THEN 1 ELSE -1) * SinTable[Abs(x) % TwoPi]

\* Math.cos
Cos(x) == Sin(x + HalfPi)

\* quat.slerp's Math.acos and Math.sin are computed with eight decimals:
\* Fine stands for 1, and a product of two such numbers is formed from their
\* halves of four decimals so that it stays within the integer range.
Fine == 10 ^ 8
Limb == 10 ^ 4

MulFine(a, b) ==
  (a \div Limb) * (b \div Limb)
    + Rnd((a \div Limb) * (b % Limb) + (a % Limb) * (b \div Limb)
            + Rnd((a % Limb) * (b % Limb), Limb), Limb)

\* Math.PI, and its half and double, in units of 1/Fine.
PiFine == 314159265
HalfPiFine == (PiFine + 1) \div 2
TwoPiFine == 2 * PiFine + 1

\* The divisors of the cosine and sine series in Horner form:
\* 1 - x2/2 (1 - x2/12 (1 - x2/30 (1 - x2/56 (1 - x2/90 (1 - x2/132))))),
\* x (1 - x2/6 (1 - x2/20 (1 - x2/42 (1 - x2/72 (1 - x2/110 (1 - x2/156)))))).
CosDivisors == <<132, 90, 56, 30, 12, 2>>
SinDivisors == <<156, 110, 72, 42, 20, 6>>

RECURSIVE HornerSeries(_, _, _, _)
HornerSeries(divisors, x2, t, i) ==
  IF i > Len(divisors) THEN t
  ELSE HornerSeries(divisors, x2, Fine - Rnd(MulFine(x2, t), divisors[i]),
                    i + 1)

\* Math.cos of x on [0, HalfPiFine], x and the result in units of 1/Fine.
CosFine(x) == HornerSeries(CosDivisors, MulFine(x, x), Fine, 1)

\* Math.sin of x on [0, HalfPiFine], x and the result in units of 1/Fine.
SinFinePoly(x) == MulFine(x, HornerSeries(SinDivisors, MulFine(x, x), Fine, 1))

\* An angle of [0, TwoPiFine] folded into [0, HalfPiFine].
FoldFine(y) ==
  IF y <= HalfPiFine THEN y
  ELSE IF y <= PiFine THEN PiFine - y
  ELSE IF y <= PiFine + HalfPiFine THEN y - PiFine
  ELSE TwoPiFine - y

SinFineOf(sign, y) ==
  sign * (IF y <= PiFine THEN 1 ELSE -1) * SinFinePoly(FoldFine(y))

\* Math.sin, x and the result in units of 1/Fine.
SinFine(x) == SinFineOf(IF x >= 0 THEN 1 ELSE -1, Abs(x) % TwoPiFine)

\* Math.acos(c) by bisection on lo..hi: the least angle whose cosine is at
\* most c; c and the angle in units of 1/Fine.
RECURSIVE AcosBetween(_, _, _)
AcosBetween(c, lo, hi) ==
  IF lo >= hi THEN lo
  ELSE IF CosFine((lo + hi) \div 2) <= c
  THEN AcosBetween(c, lo, (lo + hi) \div 2)
  ELSE AcosBetween(c, (lo + hi) \div 2 + 1, hi)

----------------------------------------------------------------------------
(* The double behind animationProgress.  A double of the engine's clock is
   kept as its grid value q (in 1/Scale) and its rounding e: the double is
   q / Scale + e / (Scale * 2^ErrBits) exactly.  Every double of magnitude
   at least one grid step is a multiple of 2^-ErrBits, and so are their sums
   and differences. *)

\* A double has 52 fraction bits; 0.001 lies in [2^-10, 2^-9).
FractionBits == 52
ErrBits == FractionBits + 10

\* 2^k * x modulo m, four doublings at a time and then one at a time.
RECURSIVE DoubleMod(_, _, _)
DoubleMod(x, k, m) ==
  IF k = 0 THEN x
  ELSE IF k >= 4 THEN DoubleMod(((2 ^ 4) * x) % m, k - 4, m)
  ELSE DoubleMod((2 * x) % m, k - 1, m)

\* The unit in the last place of a value of magnitude a / Scale, in units
\* of 2^-ErrBits: the largest power of two u >= 1 with
\* u * 2^FractionBits <= the magnitude; on a power of two the sign se of
\* the rounding decides.
RECURSIVE UlpFrom(_, _, _)
UlpFrom(a, se, u) ==
  IF \/ Scale * (2 * u) < (2 ^ (ErrBits - FractionBits)) * a
     \/ (Scale * (2 * u) = (2 ^ (ErrBits - FractionBits)) * a /\ se >= 0)
  THEN UlpFrom(a, se, 2 * u)
  ELSE u

Ulp(q, e) == UlpFrom(Abs(q), IF q >= 0 THEN e ELSE -e, 1)

\* The step from t to the nearest multiple of h, ties to the even multiple;
\* t is given modulo 2h.
RoundHalfEven(t, h) ==
  IF 2 * (t % h) < h THEN -(t % h)
  ELSE IF 2 * (t % h) > h THEN h - (t % h)
  ELSE IF t < h THEN -(t % h)
  ELSE h - (t % h)

\* The exact value (q, e) modulo m, in units of 2^-ErrBits / Scale.
ExactMod(q, e, m) == (DoubleMod(q % m, ErrBits, m) + e) % m

DoubleErrorAt(q, e, u) ==
  e + RoundHalfEven(ExactMod(q, e, 2 * Scale * u), Scale * u)

\* The rounding of the double nearest to the exact value (q, e), ties to
\* even: the decimal-to-double conversion when e = 0, the rounding of a sum
\* otherwise.
DoubleError(q, e) == DoubleErrorAt(q, e, Ulp(q, e))

\* The rounding of the double sum animationProgress + animationSpeed, both
\* given as grid value and rounding.
SumError(progress, rounding, speed, speedError) ==
  DoubleError(progress + speed, rounding + speedError)

\* The rounding of 2^-60, a positive double below half the gap 2^-53 between
\* the doubles of [0.5, 1): its grid value is 0.
TinySpeed == Scale * 2 ^ (ErrBits - FractionBits - 8)

\* The test `>= 1` on the double (q, e).
ReachesOne(q, e) == q > Scale \/ (q = Scale /\ e >= 0)

----------------------------------------------------------------------------
(* Inputs the control surface may pass, and the bounds on the model *)

\* setAnimationSpeed arguments: negative, zero, 0.1 (whose tenth double sum
\* is below 1) and 0.3 (which does not divide 1, so that a loop overshoots
\* 1).
SpeedInputs == {-300, 0, 100, 300}

\* setStartAxis / setEndAxis arguments: the zero vector, and two non-unit
\* vectors whose quaternions have a negative dot product.
AxisInputs == { <<0, 0, 0>>, <<Scale, -Scale, 0>>, <<-Scale, -Scale, 0>> }

\* setConeParams arguments (Partial<ConeParams>; the control panel passes
\* all three fields): a valid change of height and segment count, the
\* smallest segment count that closes a cone, and one degenerate value of
\* each field.
ConeInputs ==
  { [radius |-> Scale, height |-> 3 * Scale, segments |-> 4],
    [radius |-> Scale, height |-> 2 * Scale, segments |-> 3],
    [radius |-> Scale, height |-> 2 * Scale, segments |-> 2],
    [radius |-> 0, height |-> 2 * Scale, segments |-> 32],
    [radius |-> Scale, height |-> 0, segments |-> 32] }

\* With a negative speed progress falls without limit; a frame is modelled
\* only while progress stays at or above -MaxUndershoot.
MaxUndershoot == 300

\* The geometry specification follows a playback only up to this
\* progress.
MaxPlayed == 30

----------------------------------------------------------------------------
(* gl-matrix, as the engine calls it *)

\* vec3.fromValues(0, 1, 0): the reference "up" vector.
upVector == <<0, Scale, 0>>

\* vec3.dot / quat.dot
Dot3(a, b) == Rnd(a[1] * b[1] + a[2] * b[2] + a[3] * b[3], Scale)
Dot4(a, b) == Rnd(a[1] * b[1] + a[2] * b[2] + a[3] * b[3] + a[4] * b[4], Scale)

\* vec3.cross
Cross(a, b) == << Rnd(a[2] * b[3] - a[3] * b[2], Scale),
                  Rnd(a[3] * b[1] - a[1] * b[3], Scale),
                  Rnd(a[1] * b[2] - a[2] * b[1], Scale) >>

\* vec3.scale
Scale3(a, k) == << Mul(a[1], k), Mul(a[2], k), Mul(a[3], k) >>

\* The squared length of a vector or quaternion, in units of 1/Scale^2.
SqLen3(a) == a[1] * a[1] + a[2] * a[2] + a[3] * a[3]
SqLen4(q) == q[1] * q[1] + q[2] * q[2] + q[3] * q[3] + q[4] * q[4]

\* vec3.normalize: a zero vector stays the zero vector, nothing is thrown.
Div3(a, r) == << Rnd(a[1] * Scale, r), Rnd(a[2] * Scale, r), Rnd(a[3] * Scale, r) >>

Normalize3(a) == IF SqLen3(a) > 0 THEN Div3(a, Sqrt(SqLen3(a))) ELSE <<0, 0, 0>>

\* quat.normalize (vec4.normalize)
Div4(q, r) == << Rnd(q[1] * Scale, r), Rnd(q[2] * Scale, r),
                 Rnd(q[3] * Scale, r), Rnd(q[4] * Scale, r) >>

Normalize4(q) == IF SqLen4(q) > 0 THEN Div4(q, Sqrt(SqLen4(q))) ELSE <<0, 0, 0, 0>>

\* quat.setAxisAngle
SetAxisAngle(axis, rad) ==
  Scale3(axis, Sin(rad \div 2)) \o << Cos(rad \div 2) >>

\* quat.rotationTo(out, a, b): the shortest-arc rotation taking a to b.
\* The thresholds are gl-matrix's -0.999999 and 0.999999.
RotationTo(a, b) ==
  LET dot == Dot3(a, b)
  IN IF dot * 1000000 < -999999 * Scale
     THEN LET t1 == Cross(<<Scale, 0, 0>>, a)
              t2 == IF SqLen3(t1) = 0 THEN Cross(<<0, Scale, 0>>, a) ELSE t1
          IN SetAxisAngle(Normalize3(t2), PiS)
     ELSE IF dot * 1000000 > 999999 * Scale
     THEN <<0, 0, 0, Scale>>
     ELSE LET c == Cross(a, b)
          IN Normalize4(<<c[1], c[2], c[3], Scale + dot>>)

\* Every axis the inputs can store, and the quaternion
\* updateOrientationQuaternions derives from each.
AxisValues ==
  { <<0, Scale, 0>>, <<Scale, 0, 0>> } \cup { Normalize3(a) : a \in AxisInputs }

AxisQuats == { RotationTo(upVector, axis) : axis \in AxisValues }

\* quat.dot of two quaternions, in units of 1/Scale^2: the products are
\* not rounded before slerp compares and inverts their sum.
SqDot4(a, b) == a[1] * b[1] + a[2] * b[2] + a[3] * b[3] + a[4] * b[4]

\* Math.acos of the cosines slerp meets for the stored quaternions,
\* computed once and kept as an explicit table (@@ makes the function
\* explicit).
AcosTable ==
  [c \in { Abs(SqDot4(a, b)) * (Fine \div (Scale * Scale)) :
             a \in AxisQuats, b \in AxisQuats } \cap 0..Fine
     |-> AcosBetween(c, 0, HalfPiFine)] @@ <<>>

\* Math.acos on [0, 1], the argument and the angle in units of 1/Fine.
Acos(c) ==
  IF c \in DOMAIN AcosTable THEN AcosTable[c]
  ELSE AcosBetween(c, 0, HalfPiFine)

\* out = scale0 * a + scale1 * b, componentwise; the scales are in units of
\* 1/unit.
Mix4(a, b, scale0, scale1, unit) ==
  << Rnd(scale0 * a[1] + scale1 * b[1], unit),
     Rnd(scale0 * a[2] + scale1 * b[2], unit),
     Rnd(scale0 * a[3] + scale1 * b[3], unit),
     Rnd(scale0 * a[4] + scale1 * b[4], unit) >>

\* The scales of slerp are kept with five decimals.
Ratio == 10 ^ 5

\* r * unit / d rounded to nearest, for 0 <= r < d and unit a power of ten,
\* digit by digit.
RECURSIVE LongDiv(_, _, _)
LongDiv(r, d, unit) ==
  IF unit = 1 THEN (IF 2 * r >= d THEN 1 ELSE 0)
  ELSE ((10 * r) \div d) * (unit \div 10)
         + LongDiv((10 * r) % d, d, unit \div 10)

QuotOf(sign, s, d) == sign * ((s \div d) * Ratio + LongDiv(s % d, d, Ratio))

\* s / d in units of 1/Ratio (d > 0).
Quot(s, d) == QuotOf(IF s >= 0 THEN 1 ELSE -1, Abs(s), d)

TimesOf(sign, t, omega) ==
  sign * ((omega \div Scale) * t + Rnd((omega % Scale) * t, Scale))

\* t * omega, t in units of 1/Scale, omega and the product in 1/Fine.
Times(t, omega) == TimesOf(IF t >= 0 THEN 1 ELSE -1, Abs(t), omega)

\* scale0 = sin((1 - t) * omega) / sinom, scale1 = sin(t * omega) / sinom,
\* given the three sines.
SlerpScaled(a, b, s0, s1, sinom) ==
  Mix4(a, b, Quot(s0, sinom), Quot(s1, sinom), Ratio)

\* The trigonometric branch of slerp, omega = acos(cosom).
SlerpTrig(a, b, t, omega) ==
  SlerpScaled(a, b, SinFine(Times(Scale - t, omega)),
              SinFine(Times(t, omega)), SinFine(omega))

\* slerp once cosom >= 0 (in units of 1/Scale^2): the linear branch is taken
\* when 1 - cosom <= EPSILON (0.000001).
SlerpNear(a, b, t, cosom) ==
  IF Scale * Scale - cosom > 1
  THEN SlerpTrig(a, b, t, Acos(cosom * (Fine \div (Scale * Scale))))
  ELSE Mix4(a, b, Scale - t, t, Scale)

Neg4(q) == << -q[1], -q[2], -q[3], -q[4] >>

\* slerp given cosom = dot(a, b): b is negated when cosom is negative.
SlerpDot(a, b, t, cosom) ==
  SlerpNear(a, IF cosom < 0 THEN Neg4(b) ELSE b, t, Abs(cosom))

\* The progress values the specifications reach and the sample points of
\* the frame table: the multiples of 0.01 from -MaxUndershoot to 1.
ProgressValues ==
  { t \in (-MaxUndershoot)..Scale : t % (Scale \div 100) = 0 }

\* slerp of the stored quaternions at those values, computed once and kept
\* as an explicit table.
SlerpTable ==
  [p \in AxisQuats \X AxisQuats \X ProgressValues
     |-> SlerpDot(p[1], p[2], p[3], SqDot4(p[1], p[2]))] @@ <<>>

\* quat.slerp(out, a, b, t)
Slerp(a, b, t) ==
  IF <<a, b, t>> \in DOMAIN SlerpTable THEN SlerpTable[<<a, b, t>>]
  ELSE SlerpDot(a, b, t, SqDot4(a, b))

----------------------------------------------------------------------------
(* Engine state: the private fields of ConeAnimation *)

VARIABLES
  loads,                  \* initialize() calls in flight, by the shader
                          \* source each awaits: [vertex, fragment]
  frameLoops,             \* requestAnimationFrame chains that are running
  initFailures,           \* initialize() calls that have rejected
  coneParams,             \* [radius, height, segments]
  coneVertexCount,        \* number of indices drawn by drawElements
  coneMesh,               \* the parameters generateCone() built the uploaded
                          \* cone buffers from (<<>>: the buffers are null)
  directionVectorBuffer,  \* uploaded direction-vector segments
  startOrientation,       \* [axis, quat]
  endOrientation,         \* [axis, quat]
  animationProgress,      \* the double, rounded to the grid
  progressRounding,       \* the double minus the grid value, in units of
                          \* 2^-ErrBits / Scale
  isAnimating,
  animationSpeed,         \* the double, rounded to the grid
  speedRounding,          \* the double minus the grid value, in the units of
                          \* progressRounding
  showIntermediateFrames,
  intermediateFrames,
  loopAnimation,
  appIsAnimating,         \* App: the isAnimating state behind the button
  appLoopAnimation        \* App: the loopAnimation state behind the checkbox

geometry == <<coneParams, coneVertexCount, coneMesh>>
orientation == <<startOrientation, endOrientation, intermediateFrames,
                 directionVectorBuffer>>
clock == <<animationProgress, progressRounding, isAnimating, animationSpeed,
           speedRounding, loopAnimation>>
app == <<appIsAnimating, appLoopAnimation>>
init == <<loads, frameLoops, initFailures>>
vars == <<init, geometry, orientation, clock, showIntermediateFrames, app>>

\* The initialize() calls made so far.
InitCalls == loads.vertex + loads.fragment + frameLoops + initFailures

\* Where initialization stands: frames are being rendered, or else a call
\* awaits a shader source, or else every call made has failed, or none was
\* made.
phase ==
  IF frameLoops > 0 THEN "running"
  ELSE IF loads.fragment > 0 THEN "loadingFragment"
  ELSE IF loads.vertex > 0 THEN "loadingVertex"
  ELSE IF initFailures > 0 THEN "failed"
  ELSE "constructed"

\* const steps = 20
steps == 20

\* A loop that stops one sample short (i < steps).
GenerateIntermediateFramesShort(sq, eq) ==
  [k \in 1..steps |-> Slerp(sq, eq, Rnd((k - 1) * Scale, steps))]

\* generateIntermediateFrames: steps + 1 samples of SLERP at t = i / steps.
GenerateIntermediateFrames(sq, eq) ==
  [k \in 1..(steps + 1) |-> Slerp(sq, eq, Rnd((k - 1) * Scale, steps))]

\* updateOrientationQuaternions: both quaternions are re-derived from the
\* axes, then the table is regenerated.
UpdateOrientationQuaternions(sAxis, eAxis) ==
  LET sq == RotationTo(upVector, sAxis)
      eq == RotationTo(upVector, eAxis)
  IN [start  |-> [axis |-> sAxis, quat |-> sq],
      end    |-> [axis |-> eAxis, quat |-> eq],
      frames |-> GenerateIntermediateFrames(sq, eq)]

\* updateOrientationQuaternions for each pair of stored axes, computed once
\* and kept as an explicit table (@@ makes the function explicit).
OrientationTable ==
  [p \in AxisValues \X AxisValues |-> UpdateOrientationQuaternions(p[1], p[2])]
    @@ <<>>

\* generateDirectionVectors: two segments from the origin, of length
\* height * 1.5, along the start and end axes.
GenerateDirectionVectors(params, sAxis, eAxis) ==
  LET vectorLength == Rnd(params.height * 3, 2)
  IN << <<0, 0, 0>>, Scale3(sAxis, vectorLength),
        <<0, 0, 0>>, Scale3(eAxis, vectorLength) >>

\* A cone whose ring has `segments` vertices: the seam is not duplicated.
GenerateConeNoSeam(params) ==
  LET radius == params.radius
      height == params.height
      segments == params.segments
      hyp == Sqrt(radius * radius + height * height)
      sideNormalY == Rnd(radius * Scale, hyp)
      sideNormalXZ == Rnd(height * Scale, hyp)
      theta(i) == Rnd(i * TwoPi, segments)
      ring == [k \in 1..segments |->
                << Mul(radius, Cos(theta(k - 1))), -Rnd(height, 2),
                   Mul(radius, Sin(theta(k - 1))) >>]
      ringNormals == [k \in 1..segments |->
                << Mul(sideNormalXZ, Cos(theta(k - 1))), sideNormalY,
                   Mul(sideNormalXZ, Sin(theta(k - 1))) >>]
      vertices == << <<0, Rnd(height, 2), 0>> >> \o ring
                     \o << <<0, -Rnd(height, 2), 0>> >>
      normals == << <<0, Scale, 0>> >> \o ringNormals \o << <<0, -Scale, 0>> >>
      baseCenter == Len(ring) + 1
      side == [k \in 1..(3 * segments) |->
                 LET i == (k - 1) \div 3
                 IN CASE (k - 1) % 3 = 0 -> 0
                      [] (k - 1) % 3 = 1 -> i + 1
                      [] OTHER -> i + 2]
      base == [k \in 1..(3 * segments) |->
                 LET i == segments - ((k - 1) \div 3)
                 IN CASE (k - 1) % 3 = 0 -> baseCenter
                      [] (k - 1) % 3 = 1 -> i + 1
                      [] OTHER -> i]
      indices == side \o base
  IN [vertices |-> vertices, normals |-> normals, indices |-> indices,
      count |-> Len(indices)]

\* generateCone: apex, segments + 1 ring vertices, base centre; a side fan
\* and a base fan of `segments` triangles each.  Nothing is validated.
GenerateCone(params) ==
  LET radius == params.radius
      height == params.height
      segments == params.segments
      hyp == Sqrt(radius * radius + height * height)
      sideNormalY == Rnd(radius * Scale, hyp)
      sideNormalXZ == Rnd(height * Scale, hyp)
      theta(i) == Rnd(i * TwoPi, segments)
      ring == [k \in 1..(segments + 1) |->
                << Mul(radius, Cos(theta(k - 1))), -Rnd(height, 2),
                   Mul(radius, Sin(theta(k - 1))) >>]
      ringNormals == [k \in 1..(segments + 1) |->
                << Mul(sideNormalXZ, Cos(theta(k - 1))), sideNormalY,
                   Mul(sideNormalXZ, Sin(theta(k - 1))) >>]
      vertices == << <<0, Rnd(height, 2), 0>> >> \o ring
                     \o << <<0, -Rnd(height, 2), 0>> >>
      normals == << <<0, Scale, 0>> >> \o ringNormals \o << <<0, -Scale, 0>> >>
      baseCenter == Len(ring) + 1
      side == [k \in 1..(3 * segments) |->
                 LET i == (k - 1) \div 3
                 IN CASE (k - 1) % 3 = 0 -> 0
                      [] (k - 1) % 3 = 1 -> i + 1
                      [] OTHER -> i + 2]
      base == [k \in 1..(3 * segments) |->
                 LET i == segments - ((k - 1) \div 3)
                 IN CASE (k - 1) % 3 = 0 -> baseCenter
                      [] (k - 1) % 3 = 1 -> i + 1
                      [] OTHER -> i]
      indices == side \o base
  IN [vertices |-> vertices, normals |-> normals, indices |-> indices,
      count |-> Len(indices)]

\* Every parameter record the inputs can store.
ConeParamValues ==
  ConeInputs \cup { [radius |-> Scale, height |-> 2 * Scale, segments |-> 32] }

\* generateCone for each of them, computed once and kept as an explicit table.
MeshTable == [p \in ConeParamValues |-> GenerateCone(p)] @@ <<>>

\* The contents of the cone buffers: coneBuffer (positions), coneNormalBuffer
\* and coneIndexBuffer as generateCone() uploaded them.
ConeBuffers ==
  IF DOMAIN coneMesh = {}
  THEN [vertices |-> <<>>, normals |-> <<>>, indices |-> <<>>, count |-> 0]
  ELSE MeshTable[coneMesh]

\* An advance that clamps progress at 1 without leaving the playing state.
RenderAdvanceNoStop(progress, rounding, playing, speed, speedError, loop) ==
  IF playing
  THEN IF ReachesOne(progress + speed,
                  SumError(progress, rounding, speed, speedError))
       THEN IF loop
            THEN [progress |-> 0, rounding |-> 0, isAnimating |-> TRUE]
            ELSE [progress |-> Scale, rounding |-> 0, isAnimating |-> TRUE]
       ELSE [progress |-> progress + speed,
             rounding |->
               SumError(progress, rounding, speed, speedError),
             isAnimating |-> TRUE]
  ELSE [progress |-> progress, rounding |-> rounding, isAnimating |-> FALSE]

\* An advance that wraps to 0 whether or not loop is set.
RenderAdvanceWraps(progress, rounding, playing, speed, speedError, loop) ==
  IF playing
  THEN IF ReachesOne(progress + speed,
                  SumError(progress, rounding, speed, speedError))
       THEN [progress |-> 0, rounding |-> 0, isAnimating |-> TRUE]
       ELSE [progress |-> progress + speed,
             rounding |->
               SumError(progress, rounding, speed, speedError),
             isAnimating |-> TRUE]
  ELSE [progress |-> progress, rounding |-> rounding, isAnimating |-> FALSE]

\* The advance at the end of render(), lines 408-418: the double sum
\* progress + speed, the test >= 1, and the wrap to 0 or the clamp to 1.
RenderAdvance(progress, rounding, playing, speed, speedError, loop) ==
  IF playing
  THEN IF ReachesOne(progress + speed,
                  SumError(progress, rounding, speed, speedError))
       THEN IF loop
            THEN [progress |-> 0, rounding |-> 0, isAnimating |-> TRUE]
            ELSE [progress |-> Scale, rounding |-> 0, isAnimating |-> FALSE]
       ELSE [progress |-> progress + speed,
             rounding |->
               SumError(progress, rounding, speed, speedError),
             isAnimating |-> TRUE]
  ELSE [progress |-> progress, rounding |-> rounding, isAnimating |-> FALSE]

\* A render() that draws the trail whenever show-trail is enabled, playing
\* or not.
RenderDrawsTrailWhilePlaying ==
  IF showIntermediateFrames
  THEN [i \in 1..Len(intermediateFrames) |->
          << intermediateFrames[i],
             Rnd(15 * Scale, 100)
               + Rnd(3 * Rnd((i - 1) * Scale, Len(intermediateFrames)), 10) >>]
  ELSE << << Slerp(startOrientation.quat, endOrientation.quat,
                   animationProgress), Scale >> >>

\* The cones one call of render() draws, as <<quaternion, alpha>> pairs.
RenderDraws ==
  IF showIntermediateFrames /\ ~isAnimating
  THEN [i \in 1..Len(intermediateFrames) |->
          << intermediateFrames[i],
             Rnd(15 * Scale, 100)
               + Rnd(3 * Rnd((i - 1) * Scale, Len(intermediateFrames)), 10) >>]
  ELSE << << Slerp(startOrientation.quat, endOrientation.quat,
                   animationProgress), Scale >> >>

----------------------------------------------------------------------------
(* Construction *)

InitOrientation == OrientationTable[<< <<0, Scale, 0>>, <<Scale, 0, 0>> >>]

\* The state after `new ConeAnimation(canvasId)` has returned: the field
\* initializers, then updateOrientationQuaternions().  No buffer exists yet.
Init ==
  /\ loads = [vertex |-> 0, fragment |-> 0]
  /\ frameLoops = 0
  /\ initFailures = 0
  /\ coneParams = [radius |-> Scale, height |-> 2 * Scale, segments |-> 32]
  /\ coneVertexCount = 0
  /\ coneMesh = <<>>
  /\ directionVectorBuffer = <<>>
  /\ startOrientation = InitOrientation.start
  /\ endOrientation = InitOrientation.end
  /\ intermediateFrames = InitOrientation.frames
  /\ animationProgress = 0
  /\ progressRounding = 0
  /\ isAnimating = FALSE
  /\ animationSpeed = 10
  /\ speedRounding = DoubleError(10, 0)
  /\ showIntermediateFrames = TRUE
  /\ loopAnimation = TRUE
  /\ appIsAnimating = FALSE
  /\ appLoopAnimation = TRUE

----------------------------------------------------------------------------
(* initialize(): two awaited shader loads, then compile, link, build the
   geometry and render the first frame *)

\* initialize() is called and runs to its first await.  Nothing guards the
\* call: it may be made again while a call is in flight, after a failure,
\* and on an engine that renders already.
Initialize ==
  /\ loads' = [loads EXCEPT !.vertex = @ + 1]
  /\ UNCHANGED <<app, frameLoops, initFailures, geometry, orientation, clock,
                 showIntermediateFrames>>

\* The vertex shader text arrives at a call; its fragment shader load
\* starts.
VertexShaderLoaded ==
  /\ loads.vertex > 0
  /\ loads' = [vertex |-> loads.vertex - 1, fragment |-> loads.fragment + 1]
  /\ UNCHANGED <<app, frameLoops, initFailures, geometry, orientation, clock,
                 showIntermediateFrames>>

\* A failed shader load after which the call awaits the vertex shader
\* again.
ShaderLoadRetried ==
  /\ \E shader \in {"vertex", "fragment"} : loads[shader] > 0
  /\ loads' = [vertex |-> loads.vertex + loads.fragment, fragment |-> 0]
  /\ UNCHANGED <<app, frameLoops, initFailures, geometry, orientation, clock,
                 showIntermediateFrames>>

\* fetch() rejects: that initialize() call rejects, nothing after its await
\* runs.
ShaderLoadFailed ==
  /\ \E shader \in {"vertex", "fragment"} :
       /\ loads[shader] > 0
       /\ loads' = [loads EXCEPT ![shader] = @ - 1]
  /\ initFailures' = initFailures + 1
  /\ UNCHANGED <<app, frameLoops, geometry, orientation, clock,
                 showIntermediateFrames>>

\* The fragment shader text arrives at a call and the rest of initialize()
\* runs: createShader twice and createProgram (either may throw), then the
\* three generate* calls and render(), which draws, advances and requests
\* the next frame: one more requestAnimationFrame chain.
FragmentShaderLoaded(outcome) ==
  /\ loads.fragment > 0
  /\ loads' = [loads EXCEPT !.fragment = @ - 1]
  /\ IF outcome = "ok"
     THEN LET mesh == MeshTable[coneParams]
              adv == RenderAdvance(animationProgress, progressRounding,
                                   isAnimating, animationSpeed, speedRounding,
                                   loopAnimation)
          IN /\ frameLoops' = frameLoops + 1
             /\ coneMesh' = coneParams
             /\ coneVertexCount' = mesh.count
             /\ directionVectorBuffer' =
                  GenerateDirectionVectors(coneParams, startOrientation.axis,
                                           endOrientation.axis)
             /\ animationProgress' = adv.progress
             /\ progressRounding' = adv.rounding
             /\ isAnimating' = adv.isAnimating
             /\ UNCHANGED <<app, initFailures, coneParams, startOrientation,
                            endOrientation, intermediateFrames,
                            animationSpeed, speedRounding, loopAnimation,
                            showIntermediateFrames>>
     ELSE /\ initFailures' = initFailures + 1
          /\ UNCHANGED <<app, frameLoops, geometry, orientation, clock,
                         showIntermediateFrames>>

\* One requestAnimationFrame callback: render().
Tick ==
  /\ frameLoops > 0
  /\ ~(isAnimating /\ animationProgress + animationSpeed < -MaxUndershoot)
  /\ LET adv == RenderAdvance(animationProgress, progressRounding,
                              isAnimating, animationSpeed, speedRounding,
                              loopAnimation)
     IN /\ animationProgress' = adv.progress
        /\ progressRounding' = adv.rounding
        /\ isAnimating' = adv.isAnimating
  /\ UNCHANGED <<app, init, geometry, orientation, animationSpeed,
                 speedRounding, loopAnimation, showIntermediateFrames>>

----------------------------------------------------------------------------
(* The public methods *)

StartAnimation ==
  /\ isAnimating' = TRUE
  /\ animationProgress' = 0
  /\ progressRounding' = 0
  /\ UNCHANGED <<app, init, geometry, orientation, animationSpeed,
                 speedRounding, loopAnimation, showIntermediateFrames>>

\* A stop that also rewinds progress to 0.
StopAnimationRewinds ==
  /\ isAnimating' = FALSE
  /\ animationProgress' = 0
  /\ progressRounding' = 0
  /\ UNCHANGED <<app, init, geometry, orientation, animationSpeed,
                 speedRounding, loopAnimation, showIntermediateFrames>>

StopAnimation ==
  /\ isAnimating' = FALSE
  /\ UNCHANGED <<app, init, geometry, orientation, animationProgress,
                 progressRounding, animationSpeed, speedRounding, loopAnimation,
                 showIntermediateFrames>>

\* A reset that also restores the default speed.
ResetAnimationAndSpeed ==
  /\ animationProgress' = 0
  /\ progressRounding' = 0
  /\ isAnimating' = FALSE
  /\ animationSpeed' = 10
  /\ speedRounding' = DoubleError(10, 0)
  /\ UNCHANGED <<app, init, geometry, orientation, loopAnimation,
                 showIntermediateFrames>>

ResetAnimation ==
  /\ animationProgress' = 0
  /\ progressRounding' = 0
  /\ isAnimating' = FALSE
  /\ UNCHANGED <<app, init, geometry, orientation, animationSpeed,
                 speedRounding, loopAnimation, showIntermediateFrames>>

\* setAnimationSpeed with the double whose grid value is speed and whose
\* rounding is given.
SetAnimationSpeedTo(speed, rounding) ==
  /\ animationSpeed' = speed
  /\ speedRounding' = rounding
  /\ UNCHANGED <<app, init, geometry, orientation, animationProgress,
                 progressRounding, isAnimating, loopAnimation,
                 showIntermediateFrames>>

\* setAnimationSpeed with the double nearest to speed / Scale.
SetAnimationSpeed(speed) == SetAnimationSpeedTo(speed, DoubleError(speed, 0))

SetShowIntermediateFrames(show) ==
  /\ showIntermediateFrames' = show
  /\ UNCHANGED <<app, init, geometry, orientation, clock>>

SetLoopAnimation(loop) ==
  /\ loopAnimation' = loop
  /\ UNCHANGED <<app, init, geometry, orientation, animationProgress,
                 progressRounding, isAnimating, animationSpeed, speedRounding,
                 showIntermediateFrames>>

\* { ...this.coneParams, ...params }
MergeConeParams(old, params) ==
  [f \in DOMAIN old |-> IF f \in DOMAIN params THEN params[f] ELSE old[f]]

\* setConeParams: merge, then generateCone().  The direction vectors are
\* not regenerated.
SetConeParams(params) ==
  LET merged == MergeConeParams(coneParams, params)
      mesh == MeshTable[merged]
  IN /\ coneParams' = merged
     /\ coneMesh' = merged
     /\ coneVertexCount' = mesh.count
     /\ UNCHANGED <<app, init, orientation, clock, showIntermediateFrames>>

\* setStartAxis: vec3.normalize into the stored axis, then
\* updateOrientationQuaternions() and generateDirectionVectors().
SetStartAxis(axis) ==
  LET o == OrientationTable[<<Normalize3(axis), endOrientation.axis>>]
  IN /\ startOrientation' = o.start
     /\ endOrientation' = o.end
     /\ intermediateFrames' = o.frames
     /\ directionVectorBuffer' =
          GenerateDirectionVectors(coneParams, o.start.axis, o.end.axis)
     /\ UNCHANGED <<app, init, geometry, clock, showIntermediateFrames>>

\* A setter that re-derives the end quaternion but keeps the old table.
SetEndAxisStale(axis) ==
  LET o == OrientationTable[<<startOrientation.axis, Normalize3(axis)>>]
  IN /\ endOrientation' = o.end
     /\ directionVectorBuffer' =
          GenerateDirectionVectors(coneParams, o.start.axis, o.end.axis)
     /\ UNCHANGED <<app, init, geometry, clock, showIntermediateFrames,
                    startOrientation, intermediateFrames>>

SetEndAxis(axis) ==
  LET o == OrientationTable[<<startOrientation.axis, Normalize3(axis)>>]
  IN /\ startOrientation' = o.start
     /\ endOrientation' = o.end
     /\ intermediateFrames' = o.frames
     /\ directionVectorBuffer' =
          GenerateDirectionVectors(coneParams, o.start.axis, o.end.axis)
     /\ UNCHANGED <<app, init, geometry, clock, showIntermediateFrames>>

----------------------------------------------------------------------------
(* The control panel: the App handlers that drive the engine *)

\* handlePlayPause: stopAnimation() if App's flag is set, startAnimation()
\* otherwise; then the flag is negated.
HandlePlayPause ==
  /\ IF appIsAnimating
     THEN /\ isAnimating' = FALSE
          /\ UNCHANGED <<animationProgress, progressRounding>>
     ELSE /\ isAnimating' = TRUE
          /\ animationProgress' = 0
          /\ progressRounding' = 0
  /\ appIsAnimating' = ~appIsAnimating
  /\ UNCHANGED <<init, geometry, orientation, animationSpeed, speedRounding,
                 loopAnimation, showIntermediateFrames, appLoopAnimation>>

\* handleReset: resetAnimation(), then the flag is cleared.
HandleReset ==
  /\ animationProgress' = 0
  /\ progressRounding' = 0
  /\ isAnimating' = FALSE
  /\ appIsAnimating' = FALSE
  /\ UNCHANGED <<init, geometry, orientation, animationSpeed, speedRounding,
                 loopAnimation, showIntermediateFrames, appLoopAnimation>>

\* handleLoopChange: App's loop state is negated and passed to
\* setLoopAnimation.
HandleLoopChange ==
  /\ appLoopAnimation' = ~appLoopAnimation
  /\ loopAnimation' = ~appLoopAnimation
  /\ UNCHANGED <<init, geometry, orientation, animationProgress,
                 progressRounding, isAnimating, animationSpeed, speedRounding,
                 showIntermediateFrames, appIsAnimating>>

\* handleSpeedChange: the slider value is passed to setAnimationSpeed.
HandleSpeedChange(newSpeed) ==
  /\ animationSpeed' = newSpeed
  /\ speedRounding' = DoubleError(newSpeed, 0)
  /\ UNCHANGED <<app, init, geometry, orientation, animationProgress,
                 progressRounding, isAnimating, loopAnimation,
                 showIntermediateFrames>>

----------------------------------------------------------------------------
(* Specification *)

\* App's mount effect: initialize() is called once for the engine.
MountEffect == InitCalls = 0 /\ Initialize

\* One step of the engine, the control surface drawing its arguments from
\* the given sets; frames are followed while a playback's progress is at
\* most maxPlayed, and the speed is set between playbacks (NextApp sets it
\* during one).
NextOf(speedIn, axisIn, coneIn, maxPlayed) ==
  \/ MountEffect
  \/ VertexShaderLoaded
  \/ ShaderLoadFailed
  \/ \E outcome \in {"ok", "compileError", "linkError"} :
       FragmentShaderLoaded(outcome)
  \/ (isAnimating => animationProgress <= maxPlayed) /\ Tick
  \/ StartAnimation
  \/ StopAnimation
  \/ ResetAnimation
  \/ ~isAnimating /\ \E speed \in speedIn : SetAnimationSpeed(speed)
  \/ \E show \in BOOLEAN : SetShowIntermediateFrames(show)
  \/ \E loop \in BOOLEAN : SetLoopAnimation(loop)
  \/ \E params \in coneIn : SetConeParams(params)
  \/ \E axis \in axisIn : SetStartAxis(axis)
  \/ \E axis \in axisIn : SetEndAxis(axis)

\* The animation clock in full, with one axis and one cone input.
Next ==
  NextOf(SpeedInputs, { <<Scale, -Scale, 0>> },
         { [radius |-> Scale, height |-> 3 * Scale, segments |-> 4] }, Scale)

Spec == Init /\ [][Next]_vars

\* The geometry and orientation inputs in full, at the initial speed.
NextGeom == NextOf({10}, AxisInputs, ConeInputs, MaxPlayed)

SpecGeom == Init /\ [][NextGeom]_vars

\* setAnimationSpeed arguments of the control-panel specification:
\* the default 0.01, whose hundredth double sum is above 1; 0.1, whose tenth
\* double sum is below 1; and 0.3, which overshoots 1.
SampleSpeeds == {10, 100, 300}

\* setAnimationSpeed arguments of the playback specification: those, and
\* the least speed of the grid, 0.001.
PlaybackSpeeds == SampleSpeeds \cup {1}

\* An uninterrupted playback: the control surface is used only while the
\* engine is not playing, so that from startAnimation() on only frames
\* occur; but for the last call of all, setAnimationSpeed(2^-60) during a
\* playback that has passed 0.5, after which only frames occur.
NextPlayback ==
  \/ MountEffect
  \/ VertexShaderLoaded
  \/ ShaderLoadFailed
  \/ \E outcome \in {"ok", "compileError", "linkError"} :
       FragmentShaderLoaded(outcome)
  \/ Tick
  \/ ~isAnimating /\ StartAnimation
  \/ ~isAnimating /\ \E speed \in PlaybackSpeeds : SetAnimationSpeed(speed)
  \/ ~isAnimating /\ \E loop \in BOOLEAN : SetLoopAnimation(loop)
  \/ /\ isAnimating
     /\ 2 * animationProgress >= Scale
     /\ SetAnimationSpeedTo(0, TinySpeed)

\* render() ends by requesting the next frame (line 420), so once the engine
\* runs a frame that is due is eventually rendered.
SpecPlayback == Init /\ [][NextPlayback]_vars /\ WF_vars(Tick)

\* The engine driven through the control panel only: Start/Pause and Reset
\* clicks, loop toggles, speed changes, and the frames.
NextApp ==
  \/ MountEffect
  \/ VertexShaderLoaded
  \/ ShaderLoadFailed
  \/ \E outcome \in {"ok", "compileError", "linkError"} :
       FragmentShaderLoaded(outcome)
  \/ Tick
  \/ HandlePlayPause
  \/ HandleReset
  \/ HandleLoopChange
  \/ \E newSpeed \in SampleSpeeds : HandleSpeedChange(newSpeed)

SpecApp == Init /\ [][NextApp]_vars

----------------------------------------------------------------------------
(* Properties *)

\* One call of render(): the first frame, at the end of initialize(), or a
\* requestAnimationFrame callback.
Frame == Tick \/ FragmentShaderLoaded("ok")

\* The double that render() tests at line 410, progress + speed, is 1 or
\* more.
SumReachesOne ==
  ReachesOne(animationProgress + animationSpeed,
             SumError(animationProgress, progressRounding, animationSpeed,
                      speedRounding))

\* animationProgress after the step is the double progress + speed.
ProgressIsSum ==
  /\ animationProgress' = animationProgress + animationSpeed
  /\ progressRounding' =
       SumError(animationProgress, progressRounding, animationSpeed,
                speedRounding)

\* C1: start() keeps progress.  From a paused state (not playing, progress
\* strictly between 0 and 1: only stop() leaves such a state, reset() leaves
\* progress 0 and a finished playback leaves 1), startAnimation() yields
\* playing = true with progress unchanged.
C1_StartResumes ==
  [][(StartAnimation /\ ~isAnimating
        /\ animationProgress > 0 /\ animationProgress < Scale)
      => (isAnimating' /\ animationProgress' = animationProgress)]_vars

\* C2: with loop = true and 0 < speed < 1, a frame taken while playing with
\* progress in [0, 1) yields (progress + speed) mod 1, so that N frames from
\* progress 0 yield (N * speed) mod 1: when the sum, as render() computes
\* it, is 1 or more the new progress is the sum minus 1 (the overshoot past
\* 1 is kept), to the grid.
C2_LoopWrapKeepsOvershoot ==
  [][(Frame /\ isAnimating /\ loopAnimation
        /\ animationSpeed > 0 /\ animationSpeed < Scale
        /\ animationProgress >= 0 /\ animationProgress < Scale)
      => IF SumReachesOne
         THEN animationProgress' = animationProgress + animationSpeed - Scale
         ELSE ProgressIsSum]_vars

\* C3: with loop = false, the frame whose sum progress + speed, as render()
\* computes it, is 1 or more sets progress to exactly 1 and playing to false
\* in that step; a frame before it keeps playing true and adds speed; frames
\* taken while not playing change neither; and from (progress 1, not
\* playing) only startAnimation() or resetAnimation() changes progress or
\* playing.
C3_NonLoopSaturates ==
  /\ [][(Frame /\ isAnimating /\ ~loopAnimation)
         => IF SumReachesOne
            THEN /\ animationProgress' = Scale
                 /\ progressRounding' = 0
                 /\ ~isAnimating'
            ELSE ProgressIsSum /\ isAnimating']_vars
  /\ [][(Frame /\ ~isAnimating)
         => UNCHANGED <<animationProgress, progressRounding,
                        isAnimating>>]_vars
  /\ [][(animationProgress = Scale /\ progressRounding = 0 /\ ~isAnimating
           /\ ~StartAnimation /\ ~ResetAnimation)
         => (/\ animationProgress' = Scale
             /\ progressRounding' = 0
             /\ ~isAnimating')]_vars

\* C3 witness: a non-looping playback has finished by itself (progress is
\* exactly 1 only after the saturating branch of render()).
C3_Witness ==
  /\ phase = "running"
  /\ ~loopAnimation
  /\ animationProgress = Scale
  /\ ~isAnimating

\* C4: getAnimationProgress() is within [0, 1] in every reachable state.
C4_ProgressInUnitInterval ==
  0 <= animationProgress /\ animationProgress <= Scale

\* C5: setAnimationSpeed(v) with v <= 0 is rejected: it changes nothing.
C5_NonPositiveSpeedRejected ==
  [][\A v \in SpeedInputs :
       (v <= 0 /\ SetAnimationSpeed(v)) => UNCHANGED vars]_vars

\* C6: setStartAxis / setEndAxis with the zero vector mutates nothing: the
\* stored axes, the quaternions, the frame table and the direction-vector
\* geometry are as before the call.
C6_ZeroAxisRejected ==
  [][(SetStartAxis(<<0, 0, 0>>) \/ SetEndAxis(<<0, 0, 0>>))
      => UNCHANGED <<startOrientation, endOrientation, intermediateFrames,
                     directionVectorBuffer>>]_vars

\* A setConeParams argument with segmentCount < 3, radius <= 0 or height <= 0.
DegenerateConeInput(params) ==
  \/ "segments" \in DOMAIN params /\ params.segments < 3
  \/ "radius" \in DOMAIN params /\ params.radius <= 0
  \/ "height" \in DOMAIN params /\ params.height <= 0

\* C7: setConeParams with a degenerate argument is rejected before any
\* buffer is built: the stored parameters, the uploaded mesh and the index
\* count used for drawing are unchanged.
C7_DegenerateConeRejected ==
  [][\A params \in ConeInputs :
       (DegenerateConeInput(params) /\ SetConeParams(params))
         => UNCHANGED <<coneParams, coneMesh, coneVertexCount>>]_vars

\* C8 as stated: the intermediate frame table always has exactly 21
\* entries, entry 0 is the start quaternion and entry 20 is the end
\* quaternion.
C8_FrameTableEndsAtEnd ==
  /\ Len(intermediateFrames) = 21
  /\ intermediateFrames[1] = startOrientation.quat
  /\ intermediateFrames[21] = endOrientation.quat

\* C8, amended: the intermediate frame table always has exactly 21 entries;
\* entry 0 is sample(0) = SLERP(start, end, 0), which is the start
\* quaternion, and entry 20 is sample(1) = SLERP(start, end, 1), which is
\* the end quaternion when the dot product of the two quaternions is not
\* negative and the negated end quaternion (the same rotation) when it is.
C8_FrameTableEnds ==
  /\ Len(intermediateFrames) = 21
  /\ intermediateFrames[1] =
       Slerp(startOrientation.quat, endOrientation.quat, 0)
  /\ intermediateFrames[1] = startOrientation.quat
  /\ intermediateFrames[21] =
       Slerp(startOrientation.quat, endOrientation.quat, Scale)
  /\ intermediateFrames[21] =
       IF SqDot4(startOrientation.quat, endOrientation.quat) < 0
       THEN Neg4(endOrientation.quat)
       ELSE endOrientation.quat

\* C8 witness: frames are being rendered after both axes were set, to
\* orientations whose quaternions have a negative dot product (entry 20 is
\* then the negated end quaternion).
C8_Witness ==
  /\ phase = "running"
  /\ startOrientation.axis = Normalize3(<<Scale, -Scale, 0>>)
  /\ endOrientation.axis = Normalize3(<<-Scale, -Scale, 0>>)
  /\ Dot4(startOrientation.quat, endOrientation.quat) < 0
  /\ intermediateFrames[21] = Neg4(endOrientation.quat)

\* C9: the table is never stale: both quaternions are those derived from
\* the current axes, and entry i is SLERP(start.quat, end.quat, i / 20) of
\* the current quaternions, for every i in 0..20.
C9_FrameTableFresh ==
  /\ startOrientation.quat = RotationTo(upVector, startOrientation.axis)
  /\ endOrientation.quat = RotationTo(upVector, endOrientation.axis)
  /\ \A i \in 0..20 :
       intermediateFrames[i + 1] =
         Slerp(startOrientation.quat, endOrientation.quat, Rnd(i * Scale, 20))

\* C9 witness: a frame that reads the table (not playing, trail shown) after
\* both axes were changed from their initial values.
C9_Witness ==
  /\ phase = "running"
  /\ showIntermediateFrames /\ ~isAnimating
  /\ startOrientation.axis = Normalize3(<<-Scale, -Scale, 0>>)
  /\ endOrientation.axis = Normalize3(<<Scale, -Scale, 0>>)
  /\ intermediateFrames[11] # InitOrientation.frames[11]

\* C10: resetAnimation() yields playing = false and progress = 0 and leaves
\* speed, loop, show-trail, the cone parameters and both orientations as
\* they were.
C10_ResetFrame ==
  [][ResetAnimation
      => /\ ~isAnimating'
         /\ animationProgress' = 0
         /\ UNCHANGED <<animationSpeed, speedRounding, loopAnimation,
                        showIntermediateFrames, coneParams, startOrientation,
                        endOrientation>>]_vars

\* C10 witness: a playing state with progress 0.6, a changed speed, loop and
\* trail off and changed cone parameters and axes, in which resetAnimation()
\* acts (it changes both progress and playing).
C10_Witness ==
  /\ phase = "running"
  /\ isAnimating
  /\ animationProgress = 600
  /\ animationSpeed = 300
  /\ ~loopAnimation /\ ~showIntermediateFrames
  /\ coneParams.segments = 4
  /\ startOrientation.axis = Normalize3(<<Scale, -Scale, 0>>)
  /\ ENABLED (ResetAnimation /\ animationProgress' # animationProgress
                /\ isAnimating' # isAnimating)

\* C11: progress is retained while stopped.  stopAnimation() sets playing to
\* false and leaves progress as it was; a frame taken while not playing
\* changes neither progress nor playing; a frame taken while playing adds
\* speed exactly once (the sum, or the wrap to 0 or the clamp to 1 when the
\* sum reaches 1); and no step other than a frame taken while playing moves
\* progress to a value other than 0.
C11_ProgressRetainedWhileStopped ==
  /\ [][StopAnimation
         => (/\ ~isAnimating'
             /\ UNCHANGED <<animationProgress, progressRounding>>)]_vars
  /\ [][(Frame /\ ~isAnimating)
         => (/\ ~isAnimating'
             /\ UNCHANGED <<animationProgress, progressRounding>>)]_vars
  /\ [][(Frame /\ isAnimating)
         => IF SumReachesOne
            THEN animationProgress' \in {0, Scale} /\ progressRounding' = 0
            ELSE ProgressIsSum]_vars
  /\ [][(/\ <<animationProgress, progressRounding>>'
              # <<animationProgress, progressRounding>>
          /\ animationProgress' # 0)
         => (Frame /\ isAnimating)]_vars

\* C11 witness: a stopped, initialized engine whose progress lies strictly
\* between 0 and 1 (only stopAnimation() after a played frame leaves such a
\* state) and on which the next frame is due.
C11_Witness ==
  /\ phase = "running"
  /\ ~isAnimating
  /\ animationProgress > 0 /\ animationProgress < Scale
  /\ ENABLED (Tick /\ animationProgress' = animationProgress)

\* C12: for every segment count n >= 3 the uploaded cone mesh has n + 3
\* vertices (apex, n + 1 ring vertices, base centre), one normal per vertex
\* and 6n index entries (n side and n base triangles), 6n being the count
\* drawn; for n = 4 that is 7 vertices and 24 indices.
C12_MeshCounts ==
  (DOMAIN coneMesh # {} /\ coneMesh.segments >= 3)
    => /\ Len(ConeBuffers.vertices) = coneMesh.segments + 3
       /\ Len(ConeBuffers.normals) = Len(ConeBuffers.vertices)
       /\ Len(ConeBuffers.indices) = 6 * coneMesh.segments
       /\ coneVertexCount = 6 * coneMesh.segments
       /\ (coneMesh.segments = 4
            => /\ Len(ConeBuffers.vertices) = 7
               /\ Len(ConeBuffers.indices) = 24)

\* C12 witness: setConeParams has uploaded the mesh of a four-segment cone.
C12_Witness ==
  /\ phase = "running"
  /\ DOMAIN coneMesh # {}
  /\ coneMesh.segments = 4
  /\ coneParams.segments = 4
  /\ Len(ConeBuffers.vertices) = 7
  /\ coneVertexCount = 24

\* C13: a frame draws its cones from the state it starts in.  Whenever a
\* frame can be rendered (the first one at the end of initialize(), the
\* later ones on each tick): if not playing and show-trail is enabled, it
\* draws one translucent cone per table entry, 21 of them, in table order;
\* otherwise it draws exactly one cone, at slerp(start, end, progress) for
\* the current progress, with alpha 1.
C13_FrameDraws ==
  (phase \in {"loadingFragment", "running"})
    => IF ~isAnimating /\ showIntermediateFrames
       THEN /\ Len(RenderDraws) = steps + 1
            /\ Len(RenderDraws) = Len(intermediateFrames)
            /\ \A i \in 1..Len(intermediateFrames) :
                 /\ RenderDraws[i][1] = intermediateFrames[i]
                 /\ RenderDraws[i][2] > 0
                 /\ RenderDraws[i][2] < Scale
       ELSE /\ Len(RenderDraws) = 1
            /\ RenderDraws[1][1] = Slerp(startOrientation.quat,
                                         endOrientation.quat,
                                         animationProgress)
            /\ RenderDraws[1][2] = Scale

\* C13 witness: a frame is due on an engine that is playing at progress 0.6
\* with show-trail enabled, and draws a single cone.
C13_Witness ==
  /\ phase = "running"
  /\ isAnimating /\ showIntermediateFrames
  /\ animationProgress = 600
  /\ Len(RenderDraws) = 1
  /\ ENABLED (Tick /\ animationProgress' # animationProgress)

\* C14: a failed initialization is final and renders nothing, initialize()
\* being called once for the engine.  A shader load failure, a compile
\* error and a link error each end initialize() in the failed state without
\* a frame (no render loop is started, neither progress nor playing nor any
\* buffer changes); from the failed state no frame can be rendered, no
\* render loop is ever started, and the engine never leaves it (no retry).
\* Conversely a frame is rendered only by an engine that has a render loop
\* or is finishing initialize(), and a render loop is started only in the
\* step in which the second shader source has arrived and compile and link
\* succeed, the first source having arrived before.
C14_FailedInitIsFinal ==
  /\ [][(ShaderLoadFailed
          \/ FragmentShaderLoaded("compileError")
          \/ FragmentShaderLoaded("linkError"))
         => (/\ phase' = "failed"
             /\ frameLoops' = 0
             /\ UNCHANGED <<geometry, orientation, clock>>)]_vars
  /\ [][phase = "failed" => (phase' = "failed" /\ UNCHANGED init)]_vars
  /\ [](phase = "failed" => ~ENABLED Frame)
  /\ [](initFailures > 0 => frameLoops = 0)
  /\ []((ENABLED Frame) => phase \in {"loadingFragment", "running"})
  /\ [][frameLoops' # frameLoops
         => (phase = "loadingFragment" /\ FragmentShaderLoaded("ok"))]_vars
  /\ [][(phase # "loadingFragment" /\ phase' = "loadingFragment")
         => (phase = "loadingVertex" /\ VertexShaderLoaded)]_vars

\* C14 witness: initialize() has failed on an engine on which
\* startAnimation() was then called: it is playing, yet no frame is due.
C14_Witness ==
  /\ phase = "failed"
  /\ isAnimating
  /\ ~ENABLED Frame

\* C15: in every state after initialization the uploaded direction-vector
\* geometry is the two segments from the origin to start.axis * (height *
\* 1.5) and end.axis * (height * 1.5), for the current axes and the current
\* cone height.
C15_DirectionVectorsCurrent ==
  (phase = "running")
    => directionVectorBuffer =
         << <<0, 0, 0>>,
            Scale3(startOrientation.axis, Rnd(coneParams.height * 3, 2)),
            <<0, 0, 0>>,
            Scale3(endOrientation.axis, Rnd(coneParams.height * 3, 2)) >>

\* The speed is positive: the double behind animationSpeed is above 0.
SpeedIsPositive ==
  animationSpeed > 0 \/ (animationSpeed = 0 /\ speedRounding > 0)

\* C16 as stated: non-looping playback terminates for every speed > 0.  On
\* a running engine that is playing with loop = false and speed > 0, frames
\* occurring and the control surface left alone, eventually playing = false
\* with progress = 1; with loop = true and speed > 0 a frame never sets
\* playing to false.
C16_PlaybackTerminatesAtAnySpeed ==
  /\ (phase = "running" /\ isAnimating /\ ~loopAnimation /\ SpeedIsPositive)
       ~> (~isAnimating /\ animationProgress = Scale)
  /\ [][(Frame /\ isAnimating /\ loopAnimation /\ SpeedIsPositive)
         => isAnimating']_vars

\* C16, amended: non-looping playback terminates for every speed of at least
\* 0.001.  On a running engine that is playing with loop = false and such a
\* speed, frames occurring, eventually playing = false with progress = 1,
\* unless the control surface is used before (the one call made during a
\* playback is setAnimationSpeed(2^-60), which leaves a speed whose grid
\* value is 0); with loop = true and any speed > 0 a frame never sets
\* playing to false.
C16_PlaybackTerminates ==
  /\ (phase = "running" /\ isAnimating /\ ~loopAnimation
        /\ animationSpeed > 0)
       ~> (\/ /\ ~isAnimating
              /\ animationProgress = Scale
              /\ progressRounding = 0
           \/ animationSpeed = 0)
  /\ [][(Frame /\ isAnimating /\ loopAnimation /\ SpeedIsPositive)
         => isAnimating']_vars

\* C16 witness: a non-looping playback at speed 0.3 has ended by itself,
\* clamped to progress 1.
C16_Witness ==
  /\ phase = "running"
  /\ ~loopAnimation
  /\ animationSpeed = 300
  /\ ~isAnimating
  /\ animationProgress = Scale

\* C17: App's isAnimating flag, which selects the button's label and the
\* method a click calls, equals the engine's isAnimating flag in every state
\* reached through Start/Pause clicks, Reset clicks, loop toggles and
\* frames.
C17_AppFlagMatchesEngine ==
  appIsAnimating = isAnimating

====
